---- MODULE Spec2Model ----
(***************************************************************************)
(* A model of the List component (src/src/components/list/List.jsx): the   *)
(* refresh scheduler (componentDidMount / the setInterval callback /       *)
(* componentWillUnmount) and the filter engine (constructor,               *)
(* handleFilterToggle, applyFilters, applyFiltersHelper, render).          *)
(*                                                                         *)
(* JavaScript values are tagged records: [t |-> "undefined"],              *)
(* [t |-> "null"], [t |-> "number", v |-> n], [t |-> "array", v |-> seq],   *)
(* [t |-> "function", v |-> name].  The optional-filter objects live in a   *)
(* heap, because the constructor and the toggle handler mutate the objects  *)
(* the caller supplied, in place; this.state.filters holds references.      *)
(*                                                                         *)
(* A row is represented by the value of its "risk" field; a filter is a     *)
(* pure predicate over a row and is represented by the set of rows it       *)
(* keeps.  A label is the sequence of its characters.                       *)
(*                                                                         *)
(* Props other than rowData keep the value the component was created with;  *)
(* callbacks supplied by the caller return normally.  A fetch started by    *)
(* fetchListActionCreator ends in the system outside the component.         *)
(*                                                                         *)
(* Spec is one List; NormalizeSpec is one List whose filter label takes     *)
(* every shape; TwoListsSpec is a List next to a second one created from    *)
(* the same array of optional-filter objects.                               *)
(***************************************************************************)
EXTENDS Integers, Sequences, FiniteSets, TLC

VARIABLES
    config,      \* the attributes the caller supplied for the element
    heap,        \* the caller's optional-filter objects, by reference
    state,       \* this.state
    interval,    \* this.interval: 0 stands for undefined, else a timer id
    timers,      \* the interval timers alive in the host runtime
    phase,       \* lifecycle position of the component
    grid,        \* rowData last handed to DataGrid by render
    fetchCalls,  \* invocations of fetchListActionCreator so far
    inFlight,    \* fetches started by those invocations and not yet completed
    ticks,       \* interval callbacks run so far
    extraLog     \* the onMountOtherActionCreators entries invoked, in order

vars == <<config, heap, state, interval, timers, phase, grid, fetchCalls,
          inFlight, ticks, extraLog>>

----------------------------------------------------------------------------
(* Bounds of the model *)

MaxRows == 2

MaxMandatory == 1

MaxExtras == 2

MaxTicks == 2

MaxLabelLen == 2

----------------------------------------------------------------------------
(* JavaScript values *)

Undefined == [t |-> "undefined"]

Null == [t |-> "null"]

Num(n) == [t |-> "number", v |-> n]

Arr(s) == [t |-> "array", v |-> s]

Fn(f) == [t |-> "function", v |-> f]

\* x !== undefined
NotUndefined(x) == x.t # "undefined"

\* the truthiness test of `if (x)` and `x ? a : b`, for the kinds of value a
\* prop of array or function type can hold
Truthy(x) == x.t \notin {"undefined", "null"}

\* x > 0: null converts to 0, undefined to NaN
GreaterThanZero(x) == x.t = "number" /\ x.v > 0

SeqsUpTo(S, n) == UNION {[1..m -> S] : m \in 0..n}

Range(s) == {s[i] : i \in 1..Len(s)}

----------------------------------------------------------------------------
(* Input domains *)

Rows == {"high", "low"}

\* every pure predicate over Rows
Preds == SUBSET Rows

RowDatas == SeqsUpTo(Rows, MaxRows)

\* the rowData the component is created with: nothing fetched yet, or a list
InitialRowDatas == {<<>>, <<"high", "low">>}

ObjIds == {"o1", "o2"}

\* "Hi Risk" and "hiRisk" have the same key, "Lo\tRisk" another
HiRisk == <<"H", "i", " ", "R">>

HiRiskCamel == <<"h", "i", "R">>

LoRisk == <<"L", "o", "\t", "R">>

Labels == {HiRisk, HiRiskCamel, LoRisk}

\* the predicates the optional filters are drawn from
OptionalPreds == {{"high"}, {"low"}}

Callbacks == {"a1", "a2"}

\* arrays of optional-filter objects: empty, one object, the same object
\* twice, two objects
OptionalArrays == {<<>>, <<"o1">>, <<"o1", "o1">>, <<"o1", "o2">>}

\* the characters labels are written with when the key is what is looked at:
\* an upper-case and a lower-case letter, two kinds of whitespace, a digit
LabelChars == {"B", "p", " ", "\t", "7"}

BloodPressure ==
    <<"B", "l", "o", "o", "d", " ", "P", "r", "e", "s", "s", "u", "r", "e">>

LabelInputs == SeqsUpTo(LabelChars, MaxLabelLen) \cup {BloodPressure, HiRisk}

\* an object no array refers to
Unused == [label |-> LoRisk, filter |-> {}, enabled |-> FALSE, key |-> <<>>]

----------------------------------------------------------------------------
(* String.prototype.toLowerCase and replace(/\s/g, '') on character sequences *)

UpperCase ==
    <<"A", "B", "C", "D", "E", "F", "G", "H", "I", "J", "K", "L", "M",
      "N", "O", "P", "Q", "R", "S", "T", "U", "V", "W", "X", "Y", "Z">>

LowerCase ==
    <<"a", "b", "c", "d", "e", "f", "g", "h", "i", "j", "k", "l", "m",
      "n", "o", "p", "q", "r", "s", "t", "u", "v", "w", "x", "y", "z">>

ToLowerChar(c) ==
    IF \E n \in 1..Len(UpperCase) : UpperCase[n] = c
    THEN LowerCase[CHOOSE n \in 1..Len(UpperCase) : UpperCase[n] = c]
    ELSE c

\* the characters of the model that /\s/ matches
IsWhitespace(c) == c \in {" ", "\t", "\n"}

toLowerCase(s) == [i \in 1..Len(s) |-> ToLowerChar(s[i])]

\* replace(/\s/, ''), without the g flag: the first match only
removeFirstWhitespace(s) ==
    IF \E n \in 1..Len(s) : IsWhitespace(s[n])
    THEN LET first == CHOOSE n \in 1..Len(s) :
                          /\ IsWhitespace(s[n])
                          /\ \A m \in 1..(n - 1) : ~IsWhitespace(s[m])
         IN  SubSeq(s, 1, first - 1) \o SubSeq(s, first + 1, Len(s))
    ELSE s

removeWhitespace(s) == SelectSeq(s, LAMBDA c : ~IsWhitespace(c))

\* v.label.toLowerCase().replace(/\s/g,'')
normalize(label) == removeWhitespace(toLowerCase(label))

NoSuchKey == <<"n", "o", "n", "e">>

\* the keys handleFilterToggle is called with
ToggleKeys == {normalize(l) : l \in Labels} \cup {NoSuchKey}

----------------------------------------------------------------------------
(* Props: the caller's attributes with List.defaultProps filled in *)

DefaultDelayInterval == 10000

defaultProps == [delayInterval |-> Num(DefaultDelayInterval), filters |-> Arr(<<>>)]

props ==
    [k \in DOMAIN config |->
        IF k \in DOMAIN defaultProps /\ config[k].t = "undefined"
        THEN defaultProps[k]
        ELSE config[k]]

----------------------------------------------------------------------------
(* Filter engine *)

\* filter(row): the predicate applied to one row
CallFilter(f, row) == row \in f

\* applyFiltersHelper with the recursion ended one filter early
RECURSIVE applyFiltersHelperStopsEarly(_, _)
applyFiltersHelperStopsEarly(list, filters) ==
    IF Len(filters) <= 1
    THEN list
    ELSE applyFiltersHelperStopsEarly(
             SelectSeq(list, LAMBDA row : CallFilter(filters[Len(filters)], row)),
             SubSeq(filters, 1, Len(filters) - 1))

RECURSIVE applyFiltersHelper(_, _)
applyFiltersHelper(list, filters) ==
    IF Len(filters) = 0
    THEN list
    ELSE applyFiltersHelper(
             SelectSeq(list, LAMBDA row : CallFilter(filters[Len(filters)], row)),
             SubSeq(filters, 1, Len(filters) - 1))

\* this.props.filters ? [...this.props.filters] : []
mandatoryFilters == IF Truthy(props.filters) THEN props.filters.v ELSE <<>>

\* enabledFilters without the test of v.enabled
allFilters(fs, h) == [i \in 1..Len(fs) |-> h[fs[i]].filter]

\* enabledFilters with the test of v.enabled negated
disabledFilters(fs, h) ==
    LET disabled == SelectSeq(fs, LAMBDA o : ~h[o].enabled)
    IN  [i \in 1..Len(disabled) |-> h[disabled[i]].filter]

\* fs.filter((v) => v.enabled).map((v) => v.filter), over the objects of heap h
enabledFilters(fs, h) ==
    LET enabled == SelectSeq(fs, LAMBDA o : h[o].enabled)
    IN  [i \in 1..Len(enabled) |-> h[enabled[i]].filter]

\* the filters applyFilters collects: the mandatory ones, then the enabled
\* optional ones (this.state.filters is always an array, hence truthy)
pipeline == mandatoryFilters \o enabledFilters(state.filters, heap)

\* (the function application makes TLC evaluate the collected filters once)
applyFilters(list) ==
    LET apply[filters \in {pipeline}] == applyFiltersHelper(list, filters)
    IN  apply[pipeline]

\* initFilters without `v.enabled = false`
RECURSIVE initFiltersKeepsEnabled(_, _, _)
initFiltersKeepsEnabled(h, fs, i) ==
    IF i > Len(fs)
    THEN h
    ELSE initFiltersKeepsEnabled(
             [h EXCEPT ![fs[i]].key = normalize(h[fs[i]].label)], fs, i + 1)

\* the constructor's map over props.optionalFilters
RECURSIVE initFilters(_, _, _)
initFilters(h, fs, i) ==
    IF i > Len(fs)
    THEN h
    ELSE initFilters(
             [h EXCEPT ![fs[i]].enabled = FALSE,
                       ![fs[i]].key = normalize(h[fs[i]].label)],
             fs, i + 1)

\* toggleFilters without the test of filter.key
RECURSIVE toggleFiltersAnyKey(_, _, _, _)
toggleFiltersAnyKey(h, fs, key, i) ==
    IF i > Len(fs)
    THEN h
    ELSE toggleFiltersAnyKey(
             [h EXCEPT ![fs[i]].enabled = ~h[fs[i]].enabled], fs, key, i + 1)

\* toggleFilters with `filter.enabled = true` in place of the negation
RECURSIVE toggleFiltersSetsTrue(_, _, _, _)
toggleFiltersSetsTrue(h, fs, key, i) ==
    IF i > Len(fs)
    THEN h
    ELSE toggleFiltersSetsTrue(
             IF h[fs[i]].key = key
             THEN [h EXCEPT ![fs[i]].enabled = TRUE]
             ELSE h,
             fs, key, i + 1)

\* the updater handleFilterToggle passes to setState: the map over
\* state.filters, from entry i on
RECURSIVE toggleFilters(_, _, _, _)
toggleFilters(h, fs, key, i) ==
    IF i > Len(fs)
    THEN h
    ELSE toggleFilters(
             IF h[fs[i]].key = key
             THEN [h EXCEPT ![fs[i]].enabled = ~h[fs[i]].enabled]
             ELSE h,
             fs, key, i + 1)

----------------------------------------------------------------------------
(* Initial states: the element as the caller created it *)

MandatoryInputs == {Undefined, Null} \cup {Arr(s) : s \in SeqsUpTo(Preds, MaxMandatory)}

OptionalInputs == {Undefined, Null} \cup {Arr(s) : s \in OptionalArrays}

FetchInputs == {Undefined, Fn("fetch")}

DelayInputs == {Undefined, Null, Num(-1), Num(0), Num(1)}

ExtrasInputs == {Undefined} \cup {Arr(s) : s \in SeqsUpTo(Callbacks, MaxExtras)}

\* the objects of the array as the caller holds them: enabled is whatever an
\* earlier use left behind
Objects == [label : Labels, filter : OptionalPreds, enabled : BOOLEAN, key : {<<>>}]

Referenced(of) == IF Truthy(of) THEN Range(of.v) ELSE {}

InitCommon ==
    /\ state = [filters |-> <<>>]
    /\ interval = 0
    /\ timers = {}
    /\ phase = "new"
    /\ grid = <<>>
    /\ fetchCalls = 0
    /\ inFlight = 0
    /\ ticks = 0
    /\ extraLog = <<>>

\* the filter inputs vary; no fetch, interval or mount callbacks are given
FilterInit ==
    /\ \E r \in InitialRowDatas, f \in MandatoryInputs, of \in OptionalInputs :
          /\ config = [rowData |-> Arr(r),
                       filters |-> f,
                       optionalFilters |-> of,
                       fetchListActionCreator |-> Undefined,
                       delayInterval |-> Undefined,
                       onMountOtherActionCreators |-> Undefined]
          /\ heap \in [ObjIds -> Objects \cup {Unused}]
          /\ \A o \in ObjIds : (heap[o] = Unused) <=> (o \notin Referenced(of))
    /\ InitCommon

\* the scheduler inputs vary; the filter inputs are one "Hi Risk" filter
SchedulerInit ==
    /\ \E fetch \in FetchInputs, delay \in DelayInputs, extras \in ExtrasInputs :
          config = [rowData |-> Arr(<<"high", "low">>),
                    filters |-> Undefined,
                    optionalFilters |-> Arr(<<"o1">>),
                    fetchListActionCreator |-> fetch,
                    delayInterval |-> delay,
                    onMountOtherActionCreators |-> extras]
    /\ heap = [o \in ObjIds |->
                  IF o = "o1"
                  THEN [label |-> HiRisk, filter |-> {"high"},
                        enabled |-> FALSE, key |-> <<>>]
                  ELSE Unused]
    /\ InitCommon

Init == FilterInit \/ SchedulerInit

\* the label of one optional filter varies; a fetchFn and an interval are given
NormalizeInit ==
    /\ config = [rowData |-> Arr(<<"high", "low">>),
                 filters |-> Undefined,
                 optionalFilters |-> Arr(<<"o1">>),
                 fetchListActionCreator |-> Fn("fetch"),
                 delayInterval |-> Num(1),
                 onMountOtherActionCreators |-> Undefined]
    /\ \E l \in LabelInputs, e \in BOOLEAN :
          heap = [o \in ObjIds |->
                     IF o = "o1"
                     THEN [label |-> l, filter |-> {"high"},
                           enabled |-> e, key |-> <<>>]
                     ELSE Unused]
    /\ InitCommon

----------------------------------------------------------------------------
(* Operations *)

constructor ==
    /\ phase = "new"
    /\ IF Truthy(props.optionalFilters)
       THEN /\ heap' = initFilters(heap, props.optionalFilters.v, 1)
            /\ state' = [filters |-> props.optionalFilters.v]
       ELSE /\ state' = [filters |-> <<>>]
            /\ UNCHANGED heap
    /\ phase' = "constructed"
    /\ UNCHANGED <<config, interval, timers, grid, fetchCalls, inFlight,
                   ticks, extraLog>>

\* render with applyFilters pushing the enabled optional filters onto
\* this.props.filters itself, not onto a copy of it
renderPushesOntoProps ==
    /\ phase \in {"constructed", "mounted"}
    /\ grid' = applyFilters(props.rowData.v)
    /\ phase' = IF phase = "constructed" THEN "rendered" ELSE phase
    /\ config' = IF config.filters.t = "array"
                 THEN [config EXCEPT !.filters = Arr(pipeline)]
                 ELSE config
    /\ UNCHANGED <<heap, state, interval, timers, fetchCalls, inFlight, ticks,
                   extraLog>>

render ==
    /\ phase \in {"constructed", "mounted"}
    /\ grid' = applyFilters(props.rowData.v)
    /\ phase' = IF phase = "constructed" THEN "rendered" ELSE phase
    /\ UNCHANGED <<config, heap, state, interval, timers, fetchCalls,
                   inFlight, ticks, extraLog>>

\* the id setInterval returns: one no live timer has
FreshTimer == 1 + Cardinality(timers)

\* componentDidMount with the `> 0` test on delayInterval left out
componentDidMountAnyInterval ==
    /\ phase = "rendered"
    /\ IF NotUndefined(props.fetchListActionCreator)
       THEN /\ fetchCalls' = fetchCalls + 1
            /\ inFlight' = inFlight + 1
            /\ IF NotUndefined(props.delayInterval)
               THEN /\ interval' = FreshTimer
                    /\ timers' = timers \cup {FreshTimer}
               ELSE UNCHANGED <<interval, timers>>
       ELSE UNCHANGED <<fetchCalls, inFlight, interval, timers>>
    /\ IF NotUndefined(props.onMountOtherActionCreators)
       THEN extraLog' = extraLog \o props.onMountOtherActionCreators.v
       ELSE UNCHANGED extraLog
    /\ phase' = "mounted"
    /\ UNCHANGED <<config, heap, state, grid, ticks>>

\* componentDidMount with the onMountOtherActionCreators loop moved inside the
\* `if (fetchListActionCreator !== undefined)` block
componentDidMountExtrasUnderFetch ==
    /\ phase = "rendered"
    /\ IF NotUndefined(props.fetchListActionCreator)
       THEN /\ fetchCalls' = fetchCalls + 1
            /\ inFlight' = inFlight + 1
            /\ IF NotUndefined(props.delayInterval)
                  /\ GreaterThanZero(props.delayInterval)
               THEN /\ interval' = FreshTimer
                    /\ timers' = timers \cup {FreshTimer}
               ELSE UNCHANGED <<interval, timers>>
            /\ IF NotUndefined(props.onMountOtherActionCreators)
               THEN extraLog' = extraLog \o props.onMountOtherActionCreators.v
               ELSE UNCHANGED extraLog
       ELSE UNCHANGED <<fetchCalls, inFlight, interval, timers, extraLog>>
    /\ phase' = "mounted"
    /\ UNCHANGED <<config, heap, state, grid, ticks>>

\* componentDidMount with the setInterval call moved out of the
\* `if (fetchListActionCreator !== undefined)` block
componentDidMountArmsWithoutFetch ==
    /\ phase = "rendered"
    /\ IF NotUndefined(props.fetchListActionCreator)
       THEN /\ fetchCalls' = fetchCalls + 1
            /\ inFlight' = inFlight + 1
       ELSE UNCHANGED <<fetchCalls, inFlight>>
    /\ IF NotUndefined(props.delayInterval)
          /\ GreaterThanZero(props.delayInterval)
       THEN /\ interval' = FreshTimer
            /\ timers' = timers \cup {FreshTimer}
       ELSE UNCHANGED <<interval, timers>>
    /\ IF NotUndefined(props.onMountOtherActionCreators)
       THEN extraLog' = extraLog \o props.onMountOtherActionCreators.v
       ELSE UNCHANGED extraLog
    /\ phase' = "mounted"
    /\ UNCHANGED <<config, heap, state, grid, ticks>>

componentDidMount ==
    /\ phase = "rendered"
    /\ IF NotUndefined(props.fetchListActionCreator)
       THEN /\ fetchCalls' = fetchCalls + 1
            /\ inFlight' = inFlight + 1
            /\ IF NotUndefined(props.delayInterval)
                  /\ GreaterThanZero(props.delayInterval)
               THEN /\ interval' = FreshTimer
                    /\ timers' = timers \cup {FreshTimer}
               ELSE UNCHANGED <<interval, timers>>
       ELSE UNCHANGED <<fetchCalls, inFlight, interval, timers>>
    /\ IF NotUndefined(props.onMountOtherActionCreators)
       THEN extraLog' = extraLog \o props.onMountOtherActionCreators.v
       ELSE UNCHANGED extraLog
    /\ phase' = "mounted"
    /\ UNCHANGED <<config, heap, state, grid, ticks>>

\* the callback of a timer that fires once, as setTimeout in place of
\* setInterval would make it
timeoutCallback ==
    /\ timers # {}
    /\ ticks < MaxTicks
    /\ fetchCalls' = fetchCalls + 1
    /\ inFlight' = inFlight + 1
    /\ ticks' = ticks + 1
    /\ timers' = {}
    /\ UNCHANGED <<config, heap, state, interval, phase, grid, extraLog>>

\* the callback of a scheduler that waits for the fetch before: it does
\* nothing while a fetch is in flight
intervalCallbackWhenNoFetchInFlight ==
    /\ timers # {}
    /\ ticks < MaxTicks
    /\ inFlight = 0
    /\ fetchCalls' = fetchCalls + 1
    /\ inFlight' = inFlight + 1
    /\ ticks' = ticks + 1
    /\ UNCHANGED <<config, heap, state, interval, timers, phase, grid,
                   extraLog>>

\* the callback given to setInterval, run by a live timer
intervalCallback ==
    /\ timers # {}
    /\ ticks < MaxTicks
    /\ fetchCalls' = fetchCalls + 1
    /\ inFlight' = inFlight + 1
    /\ ticks' = ticks + 1
    /\ UNCHANGED <<config, heap, state, interval, timers, phase, grid,
                   extraLog>>

\* a fetch that an invocation of fetchListActionCreator started comes to its
\* end in the system outside the component; the component takes no part
fetchCompletes ==
    /\ inFlight > 0
    /\ inFlight' = inFlight - 1
    /\ UNCHANGED <<config, heap, state, interval, timers, phase, grid,
                   fetchCalls, ticks, extraLog>>

\* componentWillUnmount without the clearInterval call
componentWillUnmountKeepsTimer ==
    /\ phase \in {"rendered", "mounted"}
    /\ phase' = "unmounted"
    /\ UNCHANGED <<config, heap, state, interval, timers, grid, fetchCalls,
                   inFlight, ticks, extraLog>>

\* componentWillUnmount written so that cancelling fails when this.interval
\* is undefined
componentWillUnmountNeedsTimer ==
    /\ phase \in {"rendered", "mounted"}
    /\ interval # 0
    /\ timers' = timers \ {interval}
    /\ phase' = "unmounted"
    /\ UNCHANGED <<config, heap, state, interval, grid, fetchCalls, inFlight,
                   ticks, extraLog>>

componentWillUnmount ==
    /\ phase \in {"rendered", "mounted"}
    /\ timers' = timers \ {interval}
    /\ phase' = "unmounted"
    /\ UNCHANGED <<config, heap, state, interval, grid, fetchCalls, inFlight,
                   ticks, extraLog>>

\* handleFilterToggle calling fetchListActionCreator after the update, to
\* refresh the list
handleFilterToggleRefetches(key) ==
    /\ phase = "mounted"
    /\ heap' = toggleFilters(heap, state.filters, key, 1)
    /\ state' = [state EXCEPT !.filters = state.filters]
    /\ IF NotUndefined(props.fetchListActionCreator)
       THEN /\ fetchCalls' = fetchCalls + 1
            /\ inFlight' = inFlight + 1
       ELSE UNCHANGED <<fetchCalls, inFlight>>
    /\ UNCHANGED <<config, interval, timers, phase, ticks, extraLog>>
    /\ grid' = applyFilters(props.rowData.v)'

\* a checkbox change: the updater runs, then the component renders again
handleFilterToggle(key) ==
    /\ phase = "mounted"
    /\ heap' = toggleFilters(heap, state.filters, key, 1)
    /\ state' = [state EXCEPT !.filters = state.filters]
    /\ UNCHANGED <<config, interval, timers, phase, fetchCalls, inFlight,
                   ticks, extraLog>>
    /\ grid' = applyFilters(props.rowData.v)'

\* the parent passes new rowData: the component renders again
receiveRowData(rows) ==
    /\ phase = "mounted"
    /\ config' = [config EXCEPT !.rowData = Arr(rows)]
    /\ UNCHANGED <<heap, state>>
    /\ grid' = applyFilters(props.rowData.v)'
    /\ UNCHANGED <<interval, timers, phase, fetchCalls, inFlight, ticks,
                   extraLog>>

Next ==
    \/ constructor
    \/ render
    \/ componentDidMount
    \/ intervalCallback
    \/ componentWillUnmount
    \/ fetchCompletes
    \/ \E key \in ToggleKeys : handleFilterToggle(key)
    \/ \E rows \in RowDatas : receiveRowData(rows)

Spec == Init /\ [][Next]_vars

\* the scheduler inputs alone
SchedulerSpec == SchedulerInit /\ [][Next]_vars

\* a second List element is created from the array of optional-filter objects
\* this one was given: its constructor runs the same map over the same objects
constructorOfOtherList ==
    /\ phase = "mounted"
    /\ Truthy(props.optionalFilters)
    /\ heap' = initFilters(heap, props.optionalFilters.v, 1)
    /\ UNCHANGED <<config, state, interval, timers, phase, grid, fetchCalls,
                   inFlight, ticks, extraLog>>

\* a checkbox of the second List changes: its updater runs over the same
\* objects; this List is not rendered again
handleFilterToggleOfOtherList(key) ==
    /\ phase = "mounted"
    /\ Truthy(props.optionalFilters)
    /\ heap' = toggleFilters(heap, props.optionalFilters.v, key, 1)
    /\ UNCHANGED <<config, state, interval, timers, phase, grid, fetchCalls,
                   inFlight, ticks, extraLog>>

TwoListsNext ==
    \/ Next
    \/ constructorOfOtherList
    \/ \E key \in ToggleKeys : handleFilterToggleOfOtherList(key)

\* this List next to another one made from the same optionalFilters array
TwoListsSpec == Init /\ [][TwoListsNext]_vars

\* labels of every shape
NormalizeSpec == NormalizeInit /\ [][Next]_vars

\* the host's event loop runs the callback of a live interval timer again
\* and again
FairSchedulerSpec == SchedulerSpec /\ WF_vars(intervalCallback)

----------------------------------------------------------------------------
(* The caller's inputs, as the claims speak of them *)

\* a fetchFn was given
HasFetch == config.fetchListActionCreator.t = "function"

\* the interval given is a number greater than 0
PositiveInterval ==
    config.delayInterval.t = "number" /\ config.delayInterval.v > 0

\* the onMountExtras given, none when the prop is absent
Extras ==
    IF config.onMountOtherActionCreators.t = "array"
    THEN config.onMountOtherActionCreators.v
    ELSE <<>>

----------------------------------------------------------------------------
(* C1: once componentWillUnmount has returned, fetchListActionCreator is     *)
(* never invoked again: in every step taken from an unmounted component the *)
(* number of fetch calls stays what it was.                                 *)
C1_NoFetchAfterStop ==
    [][phase = "unmounted" => fetchCalls' = fetchCalls]_vars

\* Stop after a timer was armed and has ticked, with ticks still allowed
C1_Witness ==
    /\ phase = "unmounted"
    /\ PositiveInterval
    /\ interval # 0
    /\ ticks >= 1
    /\ ticks < MaxTicks
    /\ fetchCalls = ticks + 1

(* C3: with a fetchFn and an interval > 0, while the component is mounted   *)
(* the number of fetch calls is 1 + the number of timer callbacks run, and  *)
(* every further timer callback eventually runs unless the component is     *)
(* unmounted first (up to the MaxTicks callbacks the model follows).         *)
C3_ImmediateThenEveryTick ==
    /\ []((phase = "mounted" /\ HasFetch /\ PositiveInterval)
            => (fetchCalls = 1 + ticks /\ timers # {}))
    /\ \A n \in 0..(MaxTicks - 1) :
          (phase = "mounted" /\ HasFetch /\ PositiveInterval /\ ticks = n)
              ~> (ticks = n + 1 \/ phase = "unmounted")

\* two timer callbacks have run on top of the immediate fetch
C3_Witness ==
    /\ phase = "mounted"
    /\ HasFetch /\ PositiveInterval
    /\ ticks = 2
    /\ fetchCalls = 3

(* C4, as claimed: with a fetchFn and an interval that is absent, null, 0   *)
(* or negative, fetchFn is invoked exactly once and no timer is armed.       *)
C4_NoTimerWhenAbsentOrNotPositive ==
    (HasFetch /\ ~PositiveInterval)
        => /\ interval = 0 /\ timers = {} /\ ticks = 0
           /\ fetchCalls <= 1
           /\ (phase = "mounted" => fetchCalls = 1)

(* C4, amended: with a fetchFn and an interval that is null, 0 or negative, *)
(* fetchFn is invoked exactly once and no timer is ever armed; an absent     *)
(* interval takes the default of 10000 ms, and the timer is armed.           *)
C4_NoTimerWhenNullOrNotPositive ==
    /\ (HasFetch /\ ~PositiveInterval /\ config.delayInterval.t # "undefined")
          => /\ interval = 0 /\ timers = {} /\ ticks = 0
             /\ fetchCalls <= 1
             /\ (phase = "mounted" => fetchCalls = 1)
    /\ (HasFetch /\ config.delayInterval.t = "undefined" /\ phase = "mounted")
          => /\ props.delayInterval = Num(DefaultDelayInterval)
             /\ interval # 0 /\ timers = {interval}
             /\ fetchCalls = 1 + ticks

\* mounted with a null interval: one fetch, no timer
C4_Witness ==
    /\ phase = "mounted"
    /\ HasFetch
    /\ config.delayInterval.t = "null"
    /\ fetchCalls = 1
    /\ timers = {}

(* C10: componentDidMount invokes every entry of onMountOtherActionCreators *)
(* once, in the given order, with or without a fetchFn and whatever the      *)
(* interval; before it none is invoked, and no later step (timer callback,   *)
(* toggle, render, new rowData, unmount) invokes one again.                  *)
C10_ExtrasOnceInOrder ==
    /\ [](/\ (phase \in {"new", "constructed", "rendered"} => extraLog = <<>>)
          /\ (phase = "mounted" => extraLog = Extras)
          /\ (phase = "unmounted" => extraLog \in {<<>>, Extras}))
    /\ [][(phase \in {"mounted", "unmounted"}) => (extraLog' = extraLog)]_vars

\* two different callbacks invoked in the order given, no fetchFn
C10_Witness ==
    /\ phase = "mounted"
    /\ ~HasFetch
    /\ extraLog = <<"a2", "a1">>
    /\ heap["o1"].enabled

----------------------------------------------------------------------------
(* The filter inputs, as the claims speak of them *)

\* the mandatory filters given, none when the prop is absent or null
Mandatory == IF config.filters.t = "array" THEN config.filters.v ELSE <<>>

\* the optional filter specs given, none when the prop is absent or null
OptionalSpecs ==
    IF config.optionalFilters.t = "array" THEN config.optionalFilters.v ELSE <<>>

\* row passes every mandatory filter
PassesMandatory(row) == \A i \in 1..Len(Mandatory) : row \in Mandatory[i]

\* row passes every optional filter that is enabled now
PassesEnabled(row) ==
    \A i \in 1..Len(state.filters) :
        heap[state.filters[i]].enabled => row \in heap[state.filters[i]].filter

\* positions of the optional filters whose key is k
Matching(k) == {i \in 1..Len(state.filters) : heap[state.filters[i]].key = k}

\* positions of the optional filters whose enabled flag the step changes
Flipped ==
    {i \in 1..Len(state.filters) :
        heap'[state.filters[i]].enabled # heap[state.filters[i]].enabled}

AllDisabled(h) == \A i \in 1..Len(state.filters) : ~h[state.filters[i]].enabled

IndexPermutations(n) == {f \in [1..n -> 1..n] : \A i, j \in 1..n : f[i] = f[j] => i = j}

\* filters applied first to last
RECURSIVE FoldFirstToLast(_, _)
FoldFirstToLast(list, filters) ==
    IF filters = <<>>
    THEN list
    ELSE FoldFirstToLast(SelectSeq(list, LAMBDA row : row \in Head(filters)),
                         Tail(filters))

(* C2: applied to any row collection, applyFilters returns, in order, exactly *)
(* the rows that pass every mandatory filter and every optional filter that   *)
(* is enabled at that moment; disabled optional filters have no influence.     *)
C2_ApplyKeepsExactlyPassingRows ==
    phase # "new" =>
        \A R \in RowDatas :
            applyFilters(R)
                = SelectSeq(R, LAMBDA row : PassesMandatory(row) /\ PassesEnabled(row))

\* a mandatory filter, an enabled and a disabled optional filter, and a grid
\* that shows some of the rows but not all
C2_Witness ==
    /\ phase = "mounted"
    /\ Len(Mandatory) >= 1
    /\ \E i, j \in 1..Len(state.filters) :
          /\ heap[state.filters[i]].enabled
          /\ ~heap[state.filters[j]].enabled
          /\ \E n \in 1..Len(grid) : grid[n] \notin heap[state.filters[j]].filter
    /\ grid # <<>>
    /\ grid # config.rowData.v
    /\ grid = applyFilters(config.rowData.v)

(* C5, as claimed: a call of handleFilterToggle with a key that some filter  *)
(* has flips the enabled flag of exactly one optional filter.                 *)
C5_ToggleFlipsExactlyOne ==
    [][\A k \in ToggleKeys :
          (handleFilterToggle(k) /\ Matching(k) # {}) => Cardinality(Flipped) = 1]_vars

(* C6: handleFilterToggle(k) leaves the enabled flag of every optional       *)
(* filter whose key is not k as it was, and leaves the number, order, labels, *)
(* keys and predicates of the optional filters as they were; when no filter   *)
(* has key k, nothing of the filter state changes.                            *)
C6_ToggleFrame ==
    [][\A k \in ToggleKeys :
          handleFilterToggle(k) =>
              /\ state' = state
              /\ \A o \in ObjIds :
                    /\ heap'[o].label = heap[o].label
                    /\ heap'[o].key = heap[o].key
                    /\ heap'[o].filter = heap[o].filter
                    /\ (heap[o].key # k => heap'[o].enabled = heap[o].enabled)
              /\ (Matching(k) = {} => (heap' = heap /\ grid' = grid))]_vars

\* one filter is enabled while a filter with another key is still disabled
C6_Witness ==
    /\ phase = "mounted"
    /\ \E i, j \in 1..Len(state.filters) :
          /\ heap[state.filters[i]].enabled
          /\ ~heap[state.filters[j]].enabled
          /\ heap[state.filters[i]].key # heap[state.filters[j]].key

(* C7: after any call handleFilterToggle(k), a second call with the same k   *)
(* gives every optional filter the enabled flag it had before the first, and  *)
(* with it the rows shown for the same rowData.                               *)
C7_ToggleTwiceRestores ==
    [][\A k \in ToggleKeys :
          handleFilterToggle(k) =>
              LET again == toggleFilters(heap', state'.filters, k, 1)
              IN  /\ \A o \in ObjIds : again[o].enabled = heap[o].enabled
                  /\ applyFiltersHelper(
                         config.rowData.v,
                         mandatoryFilters \o enabledFilters(state'.filters, again))
                       = applyFilters(config.rowData.v)]_vars

\* a first toggle has narrowed the rows shown, and the same key once more
\* disables every filter again
C7_Witness ==
    /\ phase = "mounted"
    /\ ~AllDisabled(heap)
    /\ grid # applyFiltersHelper(config.rowData.v, mandatoryFilters)
    /\ \E k \in ToggleKeys : AllDisabled(toggleFilters(heap, state.filters, k, 1))

(* C8: the constructor makes state.filters the caller's optional filter      *)
(* specs, one entry per spec and in the caller's order (none when no specs    *)
(* are given), each with enabled = false and key = normalize(label), so that  *)
(* the first render shows every row that passes the mandatory filters; from   *)
(* then on the collection keeps its length, order, labels, keys and           *)
(* predicates: only enabled flags change.                                     *)
C8_InitializeThenOnlyFlagsChange ==
    /\ [](phase # "new" =>
            /\ state.filters = OptionalSpecs
            /\ \A i \in 1..Len(state.filters) :
                  heap[state.filters[i]].key = normalize(heap[state.filters[i]].label)
            /\ (phase \in {"constructed", "rendered"} => AllDisabled(heap))
            /\ (phase = "rendered" =>
                  grid = SelectSeq(config.rowData.v, PassesMandatory)))
    /\ [][/\ \A o \in ObjIds : /\ heap'[o].label = heap[o].label
                              /\ heap'[o].filter = heap[o].filter
          /\ (phase # "new" =>
                /\ state'.filters = state.filters
                /\ \A o \in ObjIds : heap'[o].key = heap[o].key)]_vars

\* the first render with two optional filters, both disabled
C8_Witness ==
    /\ phase = "rendered"
    /\ state.filters = <<"o1", "o2">>
    /\ heap["o1"].label # heap["o2"].label
    /\ AllDisabled(heap)
    /\ grid # <<>>
    /\ grid = SelectSeq(config.rowData.v, PassesMandatory)

(* C9: for the filters applyFilters collects, applyFiltersHelper gives the   *)
(* same rows for every permutation of them, and the same rows as applying     *)
(* them first to last.                                                        *)
C9_OrderIndependent ==
    phase # "new" =>
        LET fs == pipeline
            R == config.rowData.v
        IN  /\ \A p \in IndexPermutations(Len(fs)) :
                  applyFiltersHelper(R, [i \in 1..Len(fs) |-> fs[p[i]]])
                      = applyFiltersHelper(R, fs)
            /\ applyFiltersHelper(R, fs) = FoldFirstToLast(R, fs)

\* two different filters in the pipeline, rows of both kinds, some row shown
C9_Witness ==
    /\ phase = "mounted"
    /\ Len(pipeline) >= 2
    /\ pipeline[1] # pipeline[2]
    /\ Range(config.rowData.v) = Rows
    /\ grid # <<>>
    /\ grid # config.rowData.v
    /\ grid = applyFiltersHelper(config.rowData.v, pipeline)

----------------------------------------------------------------------------
(* C11: in every reachable state at most one interval timer armed by the     *)
(* component is alive, and a live timer is the one this.interval names;      *)
(* once the component is unmounted no timer it armed is alive.               *)
C11_AtMostOneTimerNoneAfterStop ==
    [](/\ Cardinality(timers) <= 1
       /\ timers \subseteq {interval} \ {0}
       /\ phase = "unmounted" => timers = {})

\* a timer was armed, ticked, and was cancelled by componentWillUnmount
C11_Witness ==
    /\ phase = "unmounted"
    /\ HasFetch
    /\ PositiveInterval
    /\ interval # 0
    /\ ticks >= 1
    /\ timers = {}

(* C12: componentWillUnmount is safe when no timer is armed (the component   *)
(* was never mounted, or componentDidMount armed none): it completes, calls  *)
(* no callback, leaves no timer alive and leaves this.interval, the filters, *)
(* their flags and the rows shown as they were.                              *)
C12_StopSafeWhenIdle ==
    /\ []((phase \in {"rendered", "mounted"} /\ timers = {})
              => ENABLED componentWillUnmount)
    /\ [][(componentWillUnmount /\ timers = {})
              => /\ timers' = {}
                 /\ interval' = interval
                 /\ fetchCalls' = fetchCalls
                 /\ extraLog' = extraLog
                 /\ heap' = heap
                 /\ state' = state
                 /\ grid' = grid
                 /\ config' = config]_vars

\* unmounted without ever having been mounted, though a fetchFn and a
\* positive interval were given
C12_Witness ==
    /\ phase = "unmounted"
    /\ HasFetch
    /\ PositiveInterval
    /\ fetchCalls = 0
    /\ interval = 0
    /\ timers = {}
    /\ extraLog = <<>>

(* C13: when no fetchListActionCreator is given, componentDidMount makes no  *)
(* fetch and arms no timer whatever delayInterval is (the default 10000      *)
(* included), and still invokes the onMountOtherActionCreators; a filters    *)
(* prop that is not given yields no mandatory filter, an optionalFilters     *)
(* prop that is not given yields no optional filter, and with neither given  *)
(* every row is shown; construction, render and mount complete.              *)
C13_MissingInputsAreNoOps ==
    [](/\ ~HasFetch =>
             /\ fetchCalls = 0
             /\ ticks = 0
             /\ interval = 0
             /\ timers = {}
             /\ phase = "mounted" => extraLog = Extras
       /\ config.filters.t # "array" => mandatoryFilters = <<>>
       /\ (config.optionalFilters.t # "array" /\ phase # "new") =>
             state.filters = <<>>
       /\ (/\ config.filters.t # "array"
           /\ config.optionalFilters.t # "array"
           /\ phase \in {"rendered", "mounted"}) =>
             /\ pipeline = <<>>
             /\ grid = config.rowData.v
       /\ (phase = "new" /\ config.optionalFilters.t # "array") => ENABLED constructor
       /\ phase = "constructed" => ENABLED render
       /\ phase = "rendered" => ENABLED componentDidMount)

\* mounted with no fetchFn, the default interval, two mount callbacks and no
\* mandatory filters
C13_Witness ==
    /\ phase = "mounted"
    /\ ~HasFetch
    /\ config.delayInterval = Undefined
    /\ props.delayInterval = Num(DefaultDelayInterval)
    /\ Len(Extras) = 2
    /\ extraLog = Extras
    /\ config.filters = Undefined
    /\ mandatoryFilters = <<>>
    /\ fetchCalls = 0
    /\ timers = {}

\* the rows of the current rowData that pass every mandatory filter and
\* every optional filter whose flag is set
ExpectedRows ==
    SelectSeq(config.rowData.v, LAMBDA row : PassesMandatory(row) /\ PassesEnabled(row))

(* C14, as claimed: render and every re-render a toggle or a rowData update   *)
(* causes hand the grid exactly the rows of the current rowData that pass the *)
(* mandatory filters and the optional filters enabled by all the toggles made *)
(* so far, never a half-applied toggle; and after n toggles of key k the flag  *)
(* of a filter with key k is (n is odd): the flags are FALSE before the first  *)
(* toggle, and in every state a toggle of k negates the flag of each filter    *)
(* whose key is k and of no other.                                             *)
C14_RenderSeesEveryToggleLastWins ==
    /\ [](phase \in {"constructed", "rendered"} => AllDisabled(heap))
    /\ [](phase = "mounted" =>
             \A k \in ToggleKeys :
                 LET toggled == toggleFilters(heap, state.filters, k, 1)
                 IN  \A i \in 1..Len(state.filters) :
                         toggled[state.filters[i]].enabled
                             = IF heap[state.filters[i]].key = k
                               THEN ~heap[state.filters[i]].enabled
                               ELSE heap[state.filters[i]].enabled)
    /\ [][render => grid' = ExpectedRows]_vars
    /\ [][(\E rows \in RowDatas : receiveRowData(rows)) => grid' = ExpectedRows']_vars
    /\ [][(\E k \in ToggleKeys : handleFilterToggle(k)) => grid' = ExpectedRows']_vars

(* C15: applyFilters does not change what it is given: a render, and the     *)
(* re-render after a toggle, leave the caller's rowData the same rows in the  *)
(* same order and the caller's mandatory filters the same filters in the same *)
(* order; the re-render after a rowData update leaves the new rowData as the  *)
(* parent passed it, and the mandatory filters as they were.                  *)
C15_ApplyLeavesInputsAlone ==
    /\ [][(render \/ \E k \in ToggleKeys : handleFilterToggle(k)) =>
             /\ config'.rowData = config.rowData
             /\ config'.filters = config.filters]_vars
    /\ [][\A rows \in RowDatas :
             receiveRowData(rows) =>
                 /\ config'.rowData = Arr(rows)
                 /\ config'.filters = config.filters]_vars

\* a mandatory and an enabled optional filter were applied and dropped rows,
\* and the rowData still holds rows that are not shown
C15_Witness ==
    /\ phase = "mounted"
    /\ Len(Mandatory) = 1
    /\ Len(pipeline) > Len(Mandatory)
    /\ Len(config.rowData.v) = MaxRows
    /\ Len(grid) < Len(config.rowData.v)
    /\ grid = ExpectedRows

\* the label without its whitespace characters, each letter then lower-cased
LowerCasedWithoutWhitespace(label) ==
    LET kept == SelectSeq(label, LAMBDA c : c \notin {" ", "\t", "\n"})
    IN  [n \in 1..Len(kept) |->
            IF \E m \in 1..26 : UpperCase[m] = kept[n]
            THEN LowerCase[CHOOSE m \in 1..26 : UpperCase[m] = kept[n]]
            ELSE kept[n]]

(* C16: once the constructor has run, the key of every optional filter is    *)
(* its label with every letter lower-cased and every whitespace character     *)
(* removed, the other characters kept in order ("Blood Pressure" gives        *)
(* "bloodpressure"); the key holds no whitespace and no upper-case letter,    *)
(* and normalising the key again gives the key.                               *)
C16_KeyIsNormalizedLabel ==
    phase # "new" =>
        \A i \in 1..Len(state.filters) :
            LET label == heap[state.filters[i]].label
                key == heap[state.filters[i]].key
            IN  /\ key = LowerCasedWithoutWhitespace(label)
                /\ \A n \in 1..Len(key) :
                      /\ key[n] \notin {" ", "\t", "\n"}
                      /\ key[n] \notin Range(UpperCase)
                /\ normalize(key) = key
                /\ label = BloodPressure =>
                      key = <<"b", "l", "o", "o", "d",
                              "p", "r", "e", "s", "s", "u", "r", "e">>

\* the filter labelled "Blood Pressure" has its key and is on screen
C16_Witness ==
    /\ phase = "mounted"
    /\ state.filters = <<"o1">>
    /\ heap["o1"].label = BloodPressure
    /\ Len(heap["o1"].key) = Len(BloodPressure) - 1
    /\ heap["o1"].key[1] = "b"
    /\ heap["o1"].key[6] = "p"

(* C17: the scheduler is fire-and-forget: whenever the timer is alive its    *)
(* callback can run, however many earlier fetches are still in flight, and    *)
(* each run invokes fetchListActionCreator once more and starts one more      *)
(* fetch; no tick is skipped, put off or merged because a fetch is            *)
(* outstanding.                                                               *)
C17_FireAndForget ==
    /\ []((timers # {} /\ ticks < MaxTicks) => ENABLED intervalCallback)
    /\ [][intervalCallback =>
             /\ fetchCalls' = fetchCalls + 1
             /\ inFlight' = inFlight + 1
             /\ timers' = timers]_vars
    /\ [](inFlight <= fetchCalls)

\* a tick has run while the fetch before it was outstanding: two or more
\* fetches are in flight, and the timer is still alive
C17_Witness ==
    /\ phase = "mounted"
    /\ timers # {}
    /\ ticks >= 1
    /\ inFlight >= 2

(* C18, as claimed: the enabled flags of this List change only through its   *)
(* own handleFilterToggle: whatever happens to another List made from the     *)
(* same optionalFilters objects (its construction, a toggle of one of its     *)
(* filters, its construction anew), every step that changes a flag of this    *)
(* mounted List is a toggle of this List, and when this List renders again    *)
(* with nothing of its own changed it shows the rows it showed.               *)
C18_FlagsChangeOnlyByOwnToggle ==
    /\ [][(phase = "mounted" /\ Flipped # {}) =>
             \E k \in ToggleKeys : handleFilterToggle(k)]_vars
    /\ [][(phase = "mounted" /\ render) => grid' = grid]_vars

(* C19: the scheduler and the filter engine do not interfere: a render, a    *)
(* toggle and a rowData update invoke no fetch and neither arm nor cancel a   *)
(* timer; a timer tick and componentWillUnmount change no enabled flag and    *)
(* nothing else of the optional filters.                                      *)
C19_SchedulerAndFiltersApart ==
    /\ [][(\/ render
           \/ \E k \in ToggleKeys : handleFilterToggle(k)
           \/ \E rows \in RowDatas : receiveRowData(rows)) =>
             /\ fetchCalls' = fetchCalls
             /\ inFlight' = inFlight
             /\ ticks' = ticks
             /\ timers' = timers
             /\ interval' = interval]_vars
    /\ [][(intervalCallback \/ componentWillUnmount) =>
             /\ Flipped = {}
             /\ heap' = heap
             /\ state' = state]_vars

\* the timer is alive and has ticked, a filter has been enabled by a toggle
\* and hides a row, and the fetches made are the one of mount and the ticks'
C19_Witness ==
    /\ phase = "mounted"
    /\ timers = {interval}
    /\ ticks >= 1
    /\ fetchCalls = ticks + 1
    /\ \E i \in 1..Len(state.filters) : heap[state.filters[i]].enabled
    /\ grid # config.rowData.v
    /\ grid = ExpectedRows

\* s is t with some elements left out, the others in the order they have in t
RECURSIVE IsSubsequence(_, _)
IsSubsequence(s, t) ==
    IF s = <<>>
    THEN TRUE
    ELSE IF t = <<>>
         THEN FALSE
         ELSE IF Head(s) = Head(t)
              THEN IsSubsequence(Tail(s), Tail(t))
              ELSE IsSubsequence(s, Tail(t))

\* the rows applyFilters gives for list when the optional filters have the
\* flags of heap h
RowsUnder(h, list) ==
    applyFiltersHelper(list, mandatoryFilters \o enabledFilters(state.filters, h))

(* C20: the rows shown are a subsequence of the current rowData; and for the *)
(* current rowData, whatever it is, with one more optional filter enabled     *)
(* applyFilters gives a subsequence of the rows it gives now, and with one    *)
(* enabled filter disabled it gives a sequence the rows it gives now are a    *)
(* subsequence of.                                                            *)
C20_SubsequenceAndMonotone ==
    [](/\ phase \in {"rendered", "mounted"} => IsSubsequence(grid, config.rowData.v)
       /\ phase # "new" =>
             LET R == config.rowData.v
                 now == applyFilters(R)
             IN  /\ IsSubsequence(now, R)
                 /\ now = RowsUnder(heap, R)
                 /\ \A i \in 1..Len(state.filters) :
                       LET o == state.filters[i]
                       IN  /\ IsSubsequence(
                                  RowsUnder([heap EXCEPT ![o].enabled = TRUE], R), now)
                           /\ IsSubsequence(
                                  now, RowsUnder([heap EXCEPT ![o].enabled = FALSE], R)))

\* one optional filter is enabled and hides a row, another is disabled, and
\* enabling it as well would hide a row now shown
C20_Witness ==
    /\ phase = "mounted"
    /\ Len(config.rowData.v) = MaxRows
    /\ grid # <<>>
    /\ grid # config.rowData.v
    /\ \E i, j \in 1..Len(state.filters) :
          /\ heap[state.filters[i]].enabled
          /\ ~heap[state.filters[j]].enabled
          /\ RowsUnder([heap EXCEPT ![state.filters[j]].enabled = TRUE],
                       config.rowData.v) # grid

====
